---- MODULE Spec2Model ----
(***************************************************************************)
(* Voicelead backend: the confidence scorers, the low-confidence fallback  *)
(* (remarks), the uploads to S3 and the Lead assembly of the voice and     *)
(* image pipelines.                                                        *)
(*                                                                         *)
(* JavaScript values are tagged records (Null, Undefined, Str, Num, Arr,   *)
(* Obj).  Strings are TLA+ strings, handled character by character with    *)
(* Len, SubSeq and \o.  Scores are kept in tenths (a field counts 10, the  *)
(* email bonus 5, ...) and a confidence is the exact fraction num/den, so  *)
(* no rounding is introduced by the model.  Durations are tenths of a      *)
(* second.                                                                 *)
(***************************************************************************)
EXTENDS Integers, Sequences, FiniteSets, TLC

VARIABLES procs, files, puts, clock,
          request, responses, created,
          phase, op, args, score, confidence, remarks, lead, thrown, logged, prev, varied,
          calls

routeVars == <<request, responses, created>>

fileVars == <<procs, files, puts, clock>>

vars == <<procs, files, puts, clock, request, responses, created, phase, op, args, score, confidence, remarks, lead, thrown, logged, prev, varied,
          calls>>

(***************************************************************************)
(* Bounds of the model.                                                    *)
(***************************************************************************)
MaxWords == 4
MaxSegments == 1
MaxClock == 1

(***************************************************************************)
(* JavaScript values.                                                      *)
(***************************************************************************)
Null == [js |-> "null"]
Undefined == [js |-> "undefined"]
Str(s) == [js |-> "string", v |-> s]
Num(n) == [js |-> "number", v |-> n]
Arr(q) == [js |-> "array", v |-> q]
\* The number that is not a number.
NaN == [js |-> "NaN"]
\* An object is a record of its properties; a property the object lacks is
\* held as Undefined, which is what reading it yields.
Obj(r) == [js |-> "object", v |-> r]

IsStr(x) == x.js = "string"
IsArr(x) == x.js = "array"
IsNullish(x) == x.js \in {"null", "undefined"}

\* ToBoolean: what `if (x)`, `x && ...` and `x || ...` test.
Truthy(x) ==
  CASE x.js = "string" -> x.v # ""
    [] x.js = "number" -> x.v # 0
    [] x.js \in {"null", "undefined", "NaN"} -> FALSE
    [] OTHER -> TRUE

\* x || y
OrElse(x, y) == IF Truthy(x) THEN x ELSE y

\* x ?? y
Coalesce(x, y) == IF IsNullish(x) THEN y ELSE x

\* obj.key
Get(obj, key) == IF key \in DOMAIN obj.v THEN obj.v[key] ELSE Undefined

(***************************************************************************)
(* Strings.                                                                *)
(***************************************************************************)
Whitespace == {" ", "\t", "\n", "\r"}

CharAt(s, i) == SubSeq(s, i, i)

RECURSIVE TrimStart(_)
TrimStart(s) ==
  IF Len(s) > 0 /\ CharAt(s, 1) \in Whitespace
    THEN TrimStart(SubSeq(s, 2, Len(s)))
    ELSE s

RECURSIVE TrimEnd(_)
TrimEnd(s) ==
  IF Len(s) > 0 /\ CharAt(s, Len(s)) \in Whitespace
    THEN TrimEnd(SubSeq(s, 1, Len(s) - 1))
    ELSE s

\* String.prototype.trim
Trim(s) == TrimEnd(TrimStart(s))

\* [^\s@]+ matches exactly s[from..to]
NoSpaceNoAt(s, from, to) ==
  /\ from <= to
  /\ \A k \in from..to : CharAt(s, k) \notin Whitespace \cup {"@"}

\* /^[^\s@]+@[^\s@]+$/.test(s): the dot of the domain not required.
EmailRegexTest_NoDot(s) ==
  \E i \in 1..Len(s) :
    /\ CharAt(s, i) = "@"
    /\ NoSpaceNoAt(s, 1, i - 1)
    /\ NoSpaceNoAt(s, i + 1, Len(s))

\* /^[^\s@]+@[^\s@]+\.[^\s@]+$/.test(s)
EmailRegexTest(s) ==
  \E i \in 1..Len(s) : \E j \in 1..Len(s) :
    /\ CharAt(s, i) = "@"
    /\ CharAt(s, j) = "."
    /\ NoSpaceNoAt(s, 1, i - 1)
    /\ NoSpaceNoAt(s, i + 1, j - 1)
    /\ NoSpaceNoAt(s, j + 1, Len(s))

\* Array.prototype.join
RECURSIVE Join(_, _)
Join(parts, sep) ==
  IF Len(parts) = 0 THEN ""
  ELSE IF Len(parts) = 1 THEN parts[1]
  ELSE parts[1] \o sep \o Join(Tail(parts), sep)

Digits == <<"0", "1", "2", "3", "4", "5", "6", "7", "8", "9">>

RECURSIVE NatToString(_)
NatToString(n) ==
  IF n < 10 THEN Digits[n + 1]
  ELSE NatToString(n \div 10) \o Digits[(n % 10) + 1]

DigitValue(c) == CHOOSE d \in 0..9 : Digits[d + 1] = c

IsDigits(s) == Len(s) > 0 /\ \A i \in 1..Len(s) : \E d \in 0..9 : Digits[d + 1] = CharAt(s, i)

RECURSIVE DigitsToNat(_)
DigitsToNat(s) ==
  IF Len(s) = 0 THEN 0
  ELSE 10 * DigitsToNat(SubSeq(s, 1, Len(s) - 1)) + DigitValue(CharAt(s, Len(s)))

\* Number(x): a number is itself, null is 0, undefined is NaN; a string is
\* trimmed, the empty string is 0, a decimal numeral its value, and a string
\* that is no numeral NaN.
Number(x) ==
  CASE x.js = "number" -> x
    [] x.js = "null" -> Num(0)
    [] x.js = "string" ->
         LET t == Trim(x.v)
         IN IF t = "" THEN Num(0)
            ELSE IF IsDigits(t) THEN Num(DigitsToNat(t))
            ELSE NaN
    [] OTHER -> NaN

\* Number.prototype.toFixed(2) of a duration given in tenths of a second.
ToFixed2(tenths) ==
  NatToString(tenths \div 10) \o "." \o Digits[(tenths % 10) + 1] \o "0"

\* `${x}` in a template literal, for the values the code interpolates.
JsToString(x) ==
  CASE x.js = "string" -> x.v
    [] x.js = "number" -> NatToString(x.v)
    [] x.js = "null" -> "null"
    [] OTHER -> "undefined"

Lowercase == "abcdefghijklmnopqrstuvwxyz"
Uppercase == "ABCDEFGHIJKLMNOPQRSTUVWXYZ"

\* c occurs in set, a string of characters.
OneOf(c, set) == \E i \in 1..Len(set) : CharAt(set, i) = c

\* .replace(/[^a-zA-Z0-9.-]/g, '_')
RECURSIVE ReplaceInvalid(_)
ReplaceInvalid(s) ==
  IF Len(s) = 0 THEN ""
  ELSE (IF OneOf(CharAt(s, 1), Lowercase \o Uppercase \o "0123456789.-")
          THEN CharAt(s, 1) ELSE "_")
         \o ReplaceInvalid(SubSeq(s, 2, Len(s)))

\* .replace(/_{2,}/g, '_')
RECURSIVE CollapseUnderscores(_)
CollapseUnderscores(s) ==
  IF Len(s) < 2 THEN s
  ELSE IF CharAt(s, 1) = "_" /\ CharAt(s, 2) = "_"
    THEN CollapseUnderscores(SubSeq(s, 2, Len(s)))
    ELSE CharAt(s, 1) \o CollapseUnderscores(SubSeq(s, 2, Len(s)))

\* .toLowerCase()
RECURSIVE ToLowerCase(_)
ToLowerCase(s) ==
  IF Len(s) = 0 THEN ""
  ELSE (IF OneOf(CharAt(s, 1), Uppercase)
          THEN CharAt(Lowercase, CHOOSE i \in 1..Len(Uppercase) :
                                   CharAt(Uppercase, i) = CharAt(s, 1))
          ELSE CharAt(s, 1))
         \o ToLowerCase(SubSeq(s, 2, Len(s)))

\* function sanitizeFilename(filename)
sanitizeFilename(filename) == ToLowerCase(CollapseUnderscores(ReplaceInvalid(filename)))

\* x.length: defined for strings and arrays, undefined for everything else.
HasLength(x) == x.js \in {"string", "array"}
Length(x) == Len(x.v)

(***************************************************************************)
(* Fractions: a confidence is score / maxScore, both in tenths.            *)
(***************************************************************************)
Rat(n, d) == [num |-> n, den |-> d]
RatLess(a, b) == a.num * b.den < b.num * a.den

\* Math.min(1, r): the lower clamp forgotten.
Clamp01_NoFloor(r) ==
  IF r.num > r.den THEN Rat(r.den, r.den) ELSE r

\* Math.max(0, Math.min(1, r))
Clamp01(r) ==
  IF r.num < 0 THEN Rat(0, r.den)
  ELSE IF r.num > r.den THEN Rat(r.den, r.den)
  ELSE r

Thrown(e) == [ok |-> FALSE, error |-> e]

(***************************************************************************)
(* The confidence scorers.                                                 *)
(***************************************************************************)
CONFIDENCE_THRESHOLD == Rat(6, 10)

FieldNames == <<"name", "email", "phone", "company", "interest">>

\* leadData[field] && leadData[field].trim().length > 0
FieldPresent(v) == Truthy(v) /\ Len(Trim(v.v)) > 0

\* .trim is not a function: a truthy value that is not a string.
FieldThrows(v) == Truthy(v) /\ ~IsStr(v)

\* score-- for score++.
FieldScore_Decrement(leadData) ==
  -10 * Cardinality({i \in 1..Len(FieldNames) : FieldPresent(Get(leadData, FieldNames[i]))})

\* fields.forEach(field => { totalFields++; if (...) score++; }), in tenths.
FieldScore(leadData) ==
  10 * Cardinality({i \in 1..Len(FieldNames) : FieldPresent(Get(leadData, FieldNames[i]))})

\* Bonus for email format validation.
EmailBonus(leadData) ==
  LET email == Get(leadData, "email")
  IN IF Truthy(email) /\ EmailRegexTest(JsToString(email)) THEN 5 ELSE 0

\* if (transcriptionText.length > 20) score -= 1: the comparison turned round.
ShortTextPenalty_Inverted(transcriptionText) ==
  IF HasLength(transcriptionText) /\ Length(transcriptionText) > 20 THEN -10 ELSE 0

\* if (transcriptionText.length < 10) score -= 1: the limit of the OCR scorer.
ShortTextPenalty_Ten(transcriptionText) ==
  IF HasLength(transcriptionText) /\ Length(transcriptionText) < 10 THEN -10 ELSE 0

\* if (transcriptionText.length < 20) score -= 1
ShortTextPenalty(transcriptionText) ==
  IF HasLength(transcriptionText) /\ Length(transcriptionText) < 20 THEN -10 ELSE 0

\* metadata.duration && metadata.segments
HasSegmentMetadata(metadata) ==
  Truthy(Get(metadata, "duration")) /\ Truthy(Get(metadata, "segments"))

\* if (metadata.duration < 2) score -= 0.5
DurationPenalty(metadata) ==
  IF HasSegmentMetadata(metadata) /\ Get(metadata, "duration").v < 20 THEN -5 ELSE 0

\* seg.text ? seg.text.length : 0
SegmentLength(seg) ==
  IF Truthy(Get(seg, "text")) THEN Length(Get(seg, "text")) ELSE 0

RECURSIVE SumSegmentLengths(_)
SumSegmentLengths(segs) ==
  IF Len(segs) = 0 THEN 0
  ELSE SegmentLength(Head(segs)) + SumSegmentLengths(Tail(segs))

\* avgSegmentLength > 10 gives 0.3; the mean is sum / length.
SegmentBonus(metadata) ==
  LET segments == Get(metadata, "segments")
  IN IF /\ HasSegmentMetadata(metadata)
        /\ IsArr(segments)
        /\ Length(segments) > 0
        /\ SumSegmentLengths(segments.v) > 10 * Length(segments)
     THEN 3 ELSE 0

\* wordsPerSecond >= 1.5 && wordsPerSecond <= 2: the upper limit too low.
PaceBonus_Strict(metadata) ==
  LET words == Get(metadata, "words")
      duration == Get(metadata, "duration")
  IN IF /\ Truthy(words)
        /\ Truthy(duration)
        /\ duration.v > 0
        /\ HasLength(words)
        /\ 100 * Length(words) >= 15 * duration.v
        /\ 10 * Length(words) <= 2 * duration.v
     THEN 2 ELSE 0

\* wordsPerSecond = words.length / duration, bonus when in [1.5, 4];
\* with the duration d in tenths, words.length / (d / 10).
PaceBonus(metadata) ==
  LET words == Get(metadata, "words")
      duration == Get(metadata, "duration")
  IN IF /\ Truthy(words)
        /\ Truthy(duration)
        /\ duration.v > 0
        /\ HasLength(words)
        /\ 100 * Length(words) >= 15 * duration.v
        /\ 10 * Length(words) <= 4 * duration.v
     THEN 2 ELSE 0

\* The TypeErrors the scorer can raise: .trim on a non-string, .length of a
\* nullish text, a property of a null metadata, .reduce on a non-array.
ConfidenceThrows(leadData, transcriptionText, metadata) ==
  \/ \E i \in 1..Len(FieldNames) : FieldThrows(Get(leadData, FieldNames[i]))
  \/ IsNullish(transcriptionText)
  \/ metadata.js = "null"
  \/ /\ metadata.js # "null"
     /\ HasSegmentMetadata(metadata)
     /\ IsStr(Get(metadata, "segments"))

\* {}: the default of the metadata parameter.
EmptyMetadata ==
  Obj([duration |-> Undefined, language |-> Undefined,
       segments |-> Undefined, words |-> Undefined])

\* function calculateConfidence(leadData, transcriptionText, metadata = {})
calculateConfidence(leadData, transcriptionText, metadataArg) ==
  LET metadata == IF metadataArg.js = "undefined" THEN EmptyMetadata ELSE metadataArg
  IN IF ConfidenceThrows(leadData, transcriptionText, metadata)
     THEN Thrown("TypeError")
     ELSE LET parts == [fields |-> FieldScore(leadData),
                        email |-> EmailBonus(leadData),
                        text |-> ShortTextPenalty(transcriptionText),
                        duration |-> DurationPenalty(metadata),
                        segments |-> SegmentBonus(metadata),
                        pace |-> PaceBonus(metadata)]
              total == parts.fields + parts.email + parts.text
                         + parts.duration + parts.segments + parts.pace
              maxScore == 10 * Len(FieldNames) + 15
          IN [ok |-> TRUE, parts |-> parts, score |-> total,
              confidence |-> Clamp01(Rat(total, maxScore))]

\* if (extractedData.ocrText && extractedData.ocrText.length < 10) score -= 1
ShortOcrPenalty(extractedData) ==
  LET ocrText == Get(extractedData, "ocrText")
  IN IF Truthy(ocrText) /\ HasLength(ocrText) /\ Length(ocrText) < 10 THEN -10 ELSE 0

\* score / (totalFields + 1.5): the divisor of the voice scorer.
calculateOCRConfidence_VoiceMax(extractedData) ==
  IF \E i \in 1..Len(FieldNames) : FieldThrows(Get(extractedData, FieldNames[i]))
  THEN Thrown("TypeError")
  ELSE LET parts == [fields |-> FieldScore(extractedData),
                     email |-> EmailBonus(extractedData),
                     text |-> ShortOcrPenalty(extractedData),
                     duration |-> 0, segments |-> 0, pace |-> 0]
           total == parts.fields + parts.email + parts.text
           maxScore == 10 * Len(FieldNames) + 15
       IN [ok |-> TRUE, parts |-> parts, score |-> total,
           confidence |-> Clamp01(Rat(total, maxScore))]

\* function calculateOCRConfidence(extractedData)
calculateOCRConfidence(extractedData) ==
  IF \E i \in 1..Len(FieldNames) : FieldThrows(Get(extractedData, FieldNames[i]))
  THEN Thrown("TypeError")
  ELSE LET parts == [fields |-> FieldScore(extractedData),
                     email |-> EmailBonus(extractedData),
                     text |-> ShortOcrPenalty(extractedData),
                     duration |-> 0, segments |-> 0, pace |-> 0]
           total == parts.fields + parts.email + parts.text
           maxScore == 10 * Len(FieldNames) + 5
       IN [ok |-> TRUE, parts |-> parts, score |-> total,
           confidence |-> Clamp01(Rat(total, maxScore))]

(***************************************************************************)
(* The uploads to S3 and the calls a pipeline issues to external services. *)
(***************************************************************************)
\* process.env.AWS_S3_BUCKET_NAME and process.env.AWS_REGION
Bucket == "voicelead"
Region == "ap-south-1"

\* `https://${bucket}.s3.${region}.amazonaws.com/${key}`
S3Url(key) == "https://" \o Bucket \o ".s3." \o Region \o ".amazonaws.com/" \o key

\* uploadAudioToS3(buffer, filename, mimetype, isTemporary): the URL it
\* returns when S3 accepts the object; `now` is Date.now().
uploadAudioToS3(filename, isTemporary, now) ==
  LET folder == IF isTemporary THEN "voice-recordings/temp" ELSE "voice-recordings"
      key == folder \o "/" \o NatToString(now) \o "_" \o sanitizeFilename(filename)
  IN S3Url(key)

\* uploadToS3(buffer, filename, mimetype) of the image pipeline.
uploadToS3(filename, now) ==
  S3Url("business-cards/" \o NatToString(now) \o "_" \o sanitizeFilename(filename))

\* A call to an external service: S3 (an upload), Whisper, GPT-4o.
Upload(temporary, url, ok) == [to |-> "s3", temporary |-> temporary, url |-> url, ok |-> ok]
Ask(service) == [to |-> service, temporary |-> FALSE, url |-> "", ok |-> TRUE]

\* The transcription is requested before the audio is uploaded.
AudioCalls_TranscribeFirst(originalName, now, accepted) ==
  LET raw == Upload(TRUE, uploadAudioToS3(originalName, TRUE, now[1]), accepted >= 1)
      permanent == Upload(FALSE, uploadAudioToS3(originalName, FALSE, now[2]), accepted >= 2)
  IN IF accepted = 0 THEN <<Ask("whisper"), raw>>
     ELSE IF accepted = 1 THEN <<Ask("whisper"), raw, permanent>>
     ELSE <<Ask("whisper"), raw, permanent, Ask("gpt-4o")>>

\* The calls of processAudioToLead, in the order of its awaits, when S3
\* accepts the first `accepted` uploads: a rejected upload throws, and
\* nothing after it runs.
AudioCalls(originalName, now, accepted) ==
  LET raw == Upload(TRUE, uploadAudioToS3(originalName, TRUE, now[1]), accepted >= 1)
      permanent == Upload(FALSE, uploadAudioToS3(originalName, FALSE, now[2]), accepted >= 2)
  IN IF accepted = 0 THEN <<raw>>
     ELSE IF accepted = 1 THEN <<raw, permanent>>
     ELSE <<raw, permanent, Ask("whisper"), Ask("gpt-4o")>>

\* The calls of processImageToLead: the upload, then the vision extraction.
ImageCalls(originalName, now, accepted) ==
  LET image == Upload(FALSE, uploadToS3(originalName, now), accepted >= 1)
  IN IF accepted = 0 THEN <<image>> ELSE <<image, Ask("gpt-4o")>>

(***************************************************************************)
(* The fallback (remarks) and the Lead of the two pipelines.               *)
(***************************************************************************)
\* if (x) partialData.push(`<label>${x}`)
Line(label, x) == IF Truthy(x) THEN <<label \o JsToString(x)>> ELSE << >>

\* transcription.text || ""
TranscriptionText(transcription) == OrElse(Get(transcription, "text"), Str(""))

\* const transcriptionMetadata = { duration: ... || 0, language: ... || 'unknown', ... }
TranscriptionMetadata(transcription) ==
  Obj([duration |-> OrElse(Get(transcription, "duration"), Num(0)),
       language |-> OrElse(Get(transcription, "language"), Str("unknown")),
       segments |-> OrElse(Get(transcription, "segments"), Arr(<< >>)),
       words |-> OrElse(Get(transcription, "words"), Arr(<< >>))])

\* duration.toFixed(1) for duration.toFixed(2).
DurationLine_OneDecimal(duration) ==
  IF Truthy(duration)
    THEN <<"Duration: " \o NatToString(duration.v \div 10) \o "."
             \o Digits[(duration.v % 10) + 1] \o "s">>
    ELSE << >>

\* if (transcriptionMetadata.duration) partialData.push(`Duration: ${duration.toFixed(2)}s`)
DurationLine(duration) ==
  IF Truthy(duration) THEN <<"Duration: " \o ToFixed2(duration.v) \o "s">> ELSE << >>

\* partialData with the email pushed before the name.
VoiceRemarks_EmailFirst(leadData, transcriptionText, transcriptionMetadata) ==
  Str(Join(Line("Transcript: ", transcriptionText)
             \o Line("Language: ", Get(transcriptionMetadata, "language"))
             \o DurationLine(Get(transcriptionMetadata, "duration"))
             \o Line("Email (low confidence): ", Get(leadData, "email"))
             \o Line("Name (low confidence): ", Get(leadData, "name"))
             \o Line("Phone (low confidence): ", Get(leadData, "phone"))
             \o Line("Company (low confidence): ", Get(leadData, "company"))
             \o Line("Interest (low confidence): ", Get(leadData, "interest")),
           " | "))

\* partialData of processAudioToLead, joined.
VoiceRemarks(leadData, transcriptionText, transcriptionMetadata) ==
  Str(Join(Line("Transcript: ", transcriptionText)
             \o Line("Language: ", Get(transcriptionMetadata, "language"))
             \o DurationLine(Get(transcriptionMetadata, "duration"))
             \o Line("Name (low confidence): ", Get(leadData, "name"))
             \o Line("Email (low confidence): ", Get(leadData, "email"))
             \o Line("Phone (low confidence): ", Get(leadData, "phone"))
             \o Line("Company (low confidence): ", Get(leadData, "company"))
             \o Line("Interest (low confidence): ", Get(leadData, "interest")),
           " | "))

\* partialData of processImageToLead, joined.
ImageRemarks(extractedData) ==
  Str(Join(Line("OCR Text: ", Get(extractedData, "ocrText"))
             \o Line("Name (low confidence): ", Get(extractedData, "name"))
             \o Line("Email (low confidence): ", Get(extractedData, "email"))
             \o Line("Phone (low confidence): ", Get(extractedData, "phone"))
             \o Line("Company (low confidence): ", Get(extractedData, "company"))
             \o Line("Interest (low confidence): ", Get(extractedData, "interest")),
           " | "))

\* confidence > CONFIDENCE_THRESHOLD: the comparison turned round.
BelowThreshold_Inverted(c) == RatLess(CONFIDENCE_THRESHOLD, c)

\* confidence < CONFIDENCE_THRESHOLD
BelowThreshold(c) == RatLess(c, CONFIDENCE_THRESHOLD)

\* processAudioToLead from the transcription on: what it returns, or the
\* error it throws.
processAudioToLead(transcription, leadData, audioUrl, rawAudioUrl) ==
  LET transcriptionText == TranscriptionText(transcription)
      transcriptionMetadata == TranscriptionMetadata(transcription)
      scored == calculateConfidence(leadData, transcriptionText, transcriptionMetadata)
  IN IF ~scored.ok THEN scored
     ELSE LET newRemarks == IF BelowThreshold(scored.confidence)
                              THEN VoiceRemarks(leadData, transcriptionText, transcriptionMetadata)
                              ELSE Null
          IN [ok |-> TRUE,
              lead |-> Obj([name |-> Get(leadData, "name"),
                            email |-> Get(leadData, "email"),
                            phone |-> Get(leadData, "phone"),
                            company |-> Get(leadData, "company"),
                            interest |-> Get(leadData, "interest"),
                            transcript |-> transcriptionText,
                            source |-> audioUrl,
                            type |-> Str("voice"),
                            confidence |-> scored.confidence,
                            remarks |-> newRemarks,
                            rawAudioUrl |-> rawAudioUrl])]

\* The fields kept only when the confidence clears the threshold.
processImageToLead_Suppressing(extractedData, imageUrl, boothId) ==
  LET scored == calculateOCRConfidence(extractedData)
      Kept(field) == IF BelowThreshold(scored.confidence)
                       THEN Null
                       ELSE Coalesce(Get(extractedData, field), Null)
  IN IF ~scored.ok THEN Thrown("Error")
     ELSE LET newRemarks == IF BelowThreshold(scored.confidence)
                              THEN ImageRemarks(extractedData)
                              ELSE Null
          IN [ok |-> TRUE,
              lead |-> Obj([name |-> Kept("name"),
                            email |-> Kept("email"),
                            phone |-> Kept("phone"),
                            company |-> Kept("company"),
                            interest |-> Kept("interest"),
                            ocrText |-> Coalesce(Get(extractedData, "ocrText"), Null),
                            source |-> imageUrl,
                            type |-> Str("image"),
                            confidence |-> scored.confidence,
                            remarks |-> newRemarks,
                            boothId |-> IF Truthy(boothId) THEN Number(boothId) ELSE Null])]

\* processImageToLead from the extraction on: what it returns, or the error
\* its catch block rethrows.
processImageToLead(extractedData, imageUrl, boothId) ==
  LET scored == calculateOCRConfidence(extractedData)
  IN IF ~scored.ok THEN Thrown("Error")
     ELSE LET newRemarks == IF BelowThreshold(scored.confidence)
                              THEN ImageRemarks(extractedData)
                              ELSE Null
          IN [ok |-> TRUE,
              lead |-> Obj([name |-> Coalesce(Get(extractedData, "name"), Null),
                            email |-> Coalesce(Get(extractedData, "email"), Null),
                            phone |-> Coalesce(Get(extractedData, "phone"), Null),
                            company |-> Coalesce(Get(extractedData, "company"), Null),
                            interest |-> Coalesce(Get(extractedData, "interest"), Null),
                            ocrText |-> Coalesce(Get(extractedData, "ocrText"), Null),
                            source |-> imageUrl,
                            type |-> Str("image"),
                            confidence |-> scored.confidence,
                            remarks |-> newRemarks,
                            boothId |-> IF Truthy(boothId) THEN Number(boothId) ELSE Null])]

\* What the module of processAudioToLeadAsync declares or imports.
AsyncModuleScope ==
  {"OpenAI", "prisma", "fs", "path", "os", "PutObjectCommand", "s3Client",
   "logger", "openai", "CONFIDENCE_THRESHOLD", "sanitizeFilename",
   "uploadAudioToS3", "calculateConfidence", "processAudioToLeadAsync"}

\* The properties of the record processAudioToLeadAsync builds for
\* saveLeadToDatabase: the five fields spread from leadData, and six more.
AsyncLeadKeys ==
  {"boothId", "name", "email", "phone", "company", "interest",
   "transcript", "confidence", "remarks", "source", "type"}

\* processAudioToLeadAsync: the first statement of its try block after the
\* log line calls downloadAudioFromS3.  Calling an identifier that is not in
\* scope raises a ReferenceError, which the catch block logs.
processAudioToLeadAsync ==
  IF "downloadAudioFromS3" \in AsyncModuleScope
    THEN [ok |-> TRUE, saved |-> AsyncLeadKeys]
    ELSE Thrown("ReferenceError")

(***************************************************************************)
(* The report of the test runners.                                         *)
(***************************************************************************)
\* confidenceScore.status and fallbackInfo of processAudioFile and
\* processImageFile, from the Lead the pipeline returned.
detailedResults(result) ==
  [confidenceScore |->
     [value |-> Get(result, "confidence"),
      status |-> IF ~RatLess(Get(result, "confidence"), Rat(6, 10))
                   THEN "HIGH_CONFIDENCE"
                   ELSE "LOW_CONFIDENCE_FALLBACK"],
   fallbackInfo |->
     [triggered |-> Truthy(Get(result, "remarks")),
      remarks |-> Get(result, "remarks")]]

(***************************************************************************)
(* The routes.                                                             *)
(***************************************************************************)
\* What lead.routes.js declares or imports.
RouteModuleScope ==
  {"express", "router", "multer", "processAudioToLead", "processImageToLead",
   "authMiddleware", "prisma", "logger", "upload"}

Response(status, body) == [status |-> status, body |-> body]

\* The record POST /capture hands to prisma.lead.create.
CaptureData(body) ==
  Obj([boothId |-> Get(body, "boothId"),
       name |-> OrElse(Get(body, "name"), Null),
       email |-> OrElse(Get(body, "email"), Null),
       company |-> OrElse(Get(body, "company"), Null),
       phone |-> OrElse(Get(body, "phone"), Null),
       interest |-> OrElse(Get(body, "interest"), Null),
       transcript |-> OrElse(Get(body, "transcript"), Null),
       ocrText |-> OrElse(Get(body, "ocrText"), Null),
       source |-> OrElse(Get(body, "source"), Null),
       type |-> OrElse(Get(body, "type"), Null),
       confidence |-> OrElse(Get(body, "confidence"), Null),
       remarks |-> OrElse(Get(body, "remarks"), Null),
       rawAudioUrl |-> OrElse(Get(body, "rawAudioUrl"), Null),
       status |-> Str("new"),
       captureMode |-> OrElse(Get(body, "captureMode"), Str("manual"))])

\* A non-empty remarks counts as lead information.
HasLeadInformation_OrRemarks(body) ==
  \/ Truthy(Get(body, "email"))
  \/ Truthy(Get(body, "phone"))
  \/ Truthy(Get(body, "interest"))
  \/ Truthy(Get(body, "name"))
  \/ Truthy(Get(body, "company"))
  \/ Truthy(Get(body, "remarks"))

\* At least one of the five fields is given.
HasLeadInformation(body) ==
  \/ Truthy(Get(body, "email"))
  \/ Truthy(Get(body, "phone"))
  \/ Truthy(Get(body, "interest"))
  \/ Truthy(Get(body, "name"))
  \/ Truthy(Get(body, "company"))

\* The handler of POST /capture: the responses it writes, the leads the
\* database holds afterwards and the error it logged.  `dbAccepts` is
\* whether prisma.lead.create resolves.
capture(body, dbAccepts) ==
  IF ~Truthy(Get(body, "boothId"))
    THEN [responses |-> <<Response(400, [success |-> FALSE, error |-> "boothId is required"])>>,
          created |-> << >>, logged |-> "none"]
  ELSE IF ~HasLeadInformation(body)
    THEN [responses |-> <<Response(400, [success |-> FALSE,
                                         error |-> "Please provide some lead information (at least one field)."])>>,
          created |-> << >>, logged |-> "none"]
  ELSE IF dbAccepts
    THEN [responses |-> <<Response(200, [success |-> TRUE, data |-> CaptureData(body)])>>,
          created |-> <<CaptureData(body)>>, logged |-> "none"]
  ELSE [responses |-> <<Response(500, [success |-> FALSE,
                                       error |-> "Failed to save lead. Please try again."])>>,
        created |-> << >>, logged |-> "PrismaError"]

\* The handler of POST /process-audio: the responses it writes, the calls
\* it issues, the error it logged and whether the background processing
\* was started.  `file` is req.file, `accepted` whether S3 takes the upload.
\* Calling an identifier that is not in scope raises a ReferenceError; the
\* one raised after the 202 is caught as well, and the catch block writes
\* its response.
processAudio(file, now, accepted) ==
  IF \/ ~Truthy(file)
     \/ ~Truthy(Get(file, "buffer"))
     \/ Get(Get(file, "buffer"), "length") = Num(0)
    THEN [responses |-> <<Response(400, [success |-> FALSE, error |-> "Invalid or empty audio file"])>>,
          calls |-> << >>, logged |-> "none", queued |-> FALSE]
  ELSE IF "uploadAudioToS3" \notin RouteModuleScope
    THEN [responses |-> <<Response(500, [success |-> FALSE, error |-> "Audio upload failed"])>>,
          calls |-> << >>, logged |-> "ReferenceError", queued |-> FALSE]
  ELSE LET audioUrl == uploadAudioToS3(Get(file, "originalname").v, FALSE, now)
       IN IF ~accepted
            THEN [responses |-> <<Response(500, [success |-> FALSE, error |-> "Audio upload failed"])>>,
                  calls |-> <<Upload(FALSE, audioUrl, FALSE)>>,
                  logged |-> "S3Error", queued |-> FALSE]
          ELSE IF "processAudioToLeadAsync" \notin RouteModuleScope
            THEN [responses |-> <<Response(202, [success |-> TRUE, source |-> audioUrl]),
                                  Response(500, [success |-> FALSE, error |-> "Audio upload failed"])>>,
                  calls |-> <<Upload(FALSE, audioUrl, TRUE)>>,
                  logged |-> "ReferenceError", queued |-> FALSE]
          ELSE [responses |-> <<Response(202, [success |-> TRUE, source |-> audioUrl])>>,
                calls |-> <<Upload(FALSE, audioUrl, TRUE)>>,
                logged |-> "none", queued |-> TRUE]

(***************************************************************************)
(* What the external services can answer.                                  *)
(***************************************************************************)
\* 19 and 20 characters: either side of the short-text limit.
Text19 == "hi, I am Jane Smith"
Text20 == "hi, I am Jane Smith."

\* GPT-4o under the strict lead_extraction schema: every key present, each a
\* string (possibly empty or blank) or null.
VoiceLeadData ==
  {Obj([name |-> n, email |-> e, phone |-> p, company |-> c, interest |-> i]) :
     n \in {Null, Str(""), Str("Jane Smith")},
     e \in {Null, Str(" "), Str("jane@x"), Str("jane@x.com")},
     p \in {Null, Str("+1234567890")},
     c \in {Null, Str("Acme")},
     i \in {Null, Str("CTO")}}

Segment(text) == Obj([text |-> Str(text)])

SegmentLists ==
  UNION {[1..n -> {Segment("hi, I am"), Segment("I am Jane Smith")}] : n \in 0..MaxSegments}

WordLists == {[k \in 1..n |-> Obj([word |-> Str("hi")])] : n \in 0..MaxWords}

RECURSIVE Repeat(_, _)
Repeat(s, n) == IF n = 0 THEN "" ELSE s \o Repeat(s, n - 1)

\* A clear recording: 120 characters of text, 8 seconds, 4 segments of 15
\* characters each and 20 words.
ClearTranscription ==
  Obj([text |-> Str(Repeat("I am Jane Smith", 8)),
       duration |-> Num(80),
       language |-> Str("english"),
       segments |-> Arr([k \in 1..4 |-> Segment("I am Jane Smith")]),
       words |-> Arr([k \in 1..20 |-> Obj([word |-> Str("hi")])])])

\* An interrupted recording: 1.5 seconds, no segments and no words reported.
MumbledTranscription ==
  Obj([text |-> Str("hi my name is uh"),
       duration |-> Num(15),
       language |-> Undefined,
       segments |-> Undefined,
       words |-> Undefined])

\* Whisper's verbose_json answer; every property may be missing.
Transcriptions ==
  {Obj([text |-> t, duration |-> d, language |-> l, segments |-> s, words |-> w]) :
     t \in {Undefined, Str(Text19), Str(Text20)},
     d \in {Undefined, Num(5), Num(20)},
     l \in {Undefined, Str("english")},
     s \in {Undefined} \cup {Arr(q) : q \in SegmentLists},
     w \in {Undefined} \cup {Arr(q) : q \in WordLists}}
  \cup {ClearTranscription, MumbledTranscription}

\* A business card read in full: two fields found, 40 characters of text.
ReadableCard ==
  Obj([name |-> Str("John"), email |-> Null, phone |-> Null,
       company |-> Str("Tech Inc"), interest |-> Null,
       ocrText |-> Str("John, Tech Inc, Senior Engineer, Seattle")])

\* GPT-4o vision in json_object mode: no schema, so a key may be missing and
\* a value may be a number.
ImageData ==
  {Obj([name |-> n, email |-> e, phone |-> p, company |-> c, interest |-> i, ocrText |-> o]) :
     n \in {Null, Str(""), Str("John")},
     e \in {Undefined, Str("john@tech"), Str("john@tech.io")},
     p \in {Null, Str("555 0100"), Num(5550100)},
     c \in {Null, Str("Tech Inc")},
     i \in {Null, Str(" ")},
     o \in {Null, Str(""), Str("John"), Str("John, Tech Inc"), Str("John, Tech Inc, john@tech.io")}}
  \cup {ReadableCard}

\* The uploaded file as Multer hands it over, and what Date.now() answers
\* at the uploads (two for a recording, the first one used for an image).
Requests ==
  {[originalName |-> "Booth 7.WAV", now |-> <<1767424946, 1767424946>>],
   [originalName |-> "lead__a.m4a", now |-> <<1767424946, 1767424947>>]}

\* The booth a caller names: none, the id as the form field or as the
\* number, and the id the test runner passes.
BoothIds == {Undefined, Str("7"), Num(7), Str("test-booth-id")}

NoFields == [name |-> Null, email |-> Null, phone |-> Null, company |-> Null, interest |-> Null]

\* The five fields of a /capture request: none, an empty name, the name
\* only, the email only, all five.
CaptureFields ==
  {NoFields,
   [NoFields EXCEPT !.name = Str("")],
   [NoFields EXCEPT !.name = Str("Jane")],
   [NoFields EXCEPT !.email = Str("jane@x.com")],
   [name |-> Str("Jane"), email |-> Str("jane@x.com"), phone |-> Str("555 0100"),
    company |-> Str("Acme"), interest |-> Str("pricing")]}

\* The bodies of POST /capture; a confidence is given in hundredths.
CaptureBodies ==
  {Obj([boothId |-> b, name |-> f.name, email |-> f.email, phone |-> f.phone,
        company |-> f.company, interest |-> f.interest, transcript |-> t,
        type |-> ty, confidence |-> c, remarks |-> r]) :
     b \in {Undefined, Num(0), Str(""), Num(7)},
     f \in CaptureFields,
     t \in {Undefined, Str("hi my name is uh")},
     ty \in {Undefined, Str("voice"), Str("image"), Str("manual")},
     c \in {Undefined, Num(0), Num(45), Num(100)},
     r \in {Undefined, Str("Transcript: hi my name is uh | Language: unknown")}}

\* req.file of POST /process-audio: none, an empty buffer, a recording.
AudioFiles ==
  {Undefined} \cup
  {Obj([buffer |-> Obj([length |-> Num(n)]), originalname |-> Str(r.originalName)]) :
     n \in {0, 2048}, r \in Requests}

\* What the background processing is handed, and the first of its steps to
\* fail ("none" when every service answers).
Failures == {"none", "download", "transcription", "extraction", "save"}

Jobs ==
  {[route |-> "processAudioToLeadAsync",
    audioUrl |-> uploadAudioToS3(r.originalName, FALSE, r.now[1]),
    boothId |-> Str("7"),
    originalName |-> r.originalName,
    fails |-> f] : r \in Requests, f \in Failures}

\* How many of a call's uploads S3 accepts.
Accepted(uploads) == 0..uploads

\* Metadata handed to calculateConfidence directly: omitted, or an object.
DirectMetadata ==
  {Undefined} \cup
  {Obj([duration |-> d, language |-> Str("english"), segments |-> s, words |-> w]) :
     d \in {Undefined, Num(0), Num(5), Num(20)},
     s \in {Undefined, Arr(<< >>), Arr(<<Segment("I am Jane Smith")>>)},
     w \in {Arr(<< >>), Arr(<<Obj([word |-> Str("hi")]), Obj([word |-> Str("I")]),
                             Obj([word |-> Str("am")])>>)}}

DirectTexts == {Str(""), Str(Text19), Str(Text20)}

\* Arguments of the wrong shape.
MalformedCalls ==
  {[leadData |-> Obj([NoFields EXCEPT !.phone = Num(5550100)]),
    text |-> Str(Text20), metadata |-> Undefined],
   [leadData |-> Obj([NoFields EXCEPT !.phone = Num(0)]),
    text |-> Str(Text20), metadata |-> Undefined],
   [leadData |-> Obj(NoFields), text |-> Str(Text20), metadata |-> Null],
   [leadData |-> Obj(NoFields), text |-> Null, metadata |-> Undefined],
   [leadData |-> Obj(NoFields), text |-> Str(Text20),
    metadata |-> Obj([duration |-> Num(20), language |-> Str("english"),
                      segments |-> Str("I am Jane Smith"), words |-> Num(7)])],
   [leadData |-> Obj(NoFields), text |-> Str(Text20),
    metadata |-> Obj([duration |-> Num(20), language |-> Str("english"),
                      segments |-> Num(3), words |-> Str("hi I am")])]}

\* The values a single field is changed to between two calls.
FieldVariants(field) ==
  IF field = "email"
    THEN {Null, Str(" "), Str("jane@x"), Str("jane@x.com")}
    ELSE {Null, Str(" "), Str("Jane")}

(***************************************************************************)
(* The temporary directory, as a function from the paths that exist to     *)
(* the invocation whose audio bytes the file holds.                        *)
(***************************************************************************)
NoFiles == [path \in {} |-> 0]

\* fs.writeFileSync(path, bytes): creates the file or replaces its content.
WriteFile(fs, path, bytes) ==
  [q \in DOMAIN fs \cup {path} |-> IF q = path THEN bytes ELSE fs[q]]

\* The finally block is skipped.
Cleanup_Skipped(fs, path) == fs

\* if (fs.existsSync(path)) fs.unlinkSync(path)
Cleanup(fs, path) ==
  IF path \in DOMAIN fs
    THEN [q \in DOMAIN fs \ {path} |-> fs[q]]
    ELSE fs

\* path.join(os.tmpdir(), `${prefix}_${Date.now()}_${originalName}`)
TempFilePath(prefix, instant, originalName) ==
  "/tmp/" \o prefix \o "_" \o NatToString(instant) \o "_" \o originalName

\* The invocations that overlap, and the names of the files they are given.
Invocations == {1, 2}

OriginalNames == {"Booth 7.WAV", "booth 7.wav"}

Idle ==
  [kind |-> "none", pc |-> "idle", originalName |-> "", tempFilePath |-> "",
   url |-> "", read |-> "nothing", outcome |-> "none"]

(***************************************************************************)
(* The state machine: one call at a time; `prev` keeps the call before a   *)
(* repeated call that changes a single argument.                           *)
(***************************************************************************)
NoArgs == [leadData |-> Undefined, text |-> Undefined, metadata |-> Undefined]

NoRequest == [route |-> "none"]

Init ==
  /\ procs = [p \in Invocations |-> Idle]
  /\ files = NoFiles
  /\ puts = {}
  /\ clock = 0
  /\ request = NoRequest
  /\ responses = << >>
  /\ created = << >>
  /\ phase = "idle"
  /\ op = "none"
  /\ args = NoArgs
  /\ score = Undefined
  /\ confidence = Undefined
  /\ remarks = Undefined
  /\ lead = Undefined
  /\ thrown = "none"
  /\ logged = "none"
  /\ prev = Undefined
  /\ varied = "none"
  /\ calls = << >>

\* The state after a scorer was called directly with `a`.
Scored(name, a, r) ==
  /\ op' = name
  /\ args' = a
  /\ score' = IF r.ok THEN [parts |-> r.parts, total |-> r.score] ELSE Undefined
  /\ confidence' = IF r.ok THEN r.confidence ELSE Undefined
  /\ thrown' = IF r.ok THEN "none" ELSE r.error
  /\ logged' = "none"
  /\ remarks' = Undefined
  /\ lead' = Undefined
  /\ calls' = << >>

\* The state after a pipeline ran on `a`: `r` is the scorer's result, `out`
\* the pipeline's and `log` the error it logged.
Processed(name, a, r, out, log) ==
  /\ op' = name
  /\ args' = a
  /\ score' = IF r.ok THEN [parts |-> r.parts, total |-> r.score] ELSE Undefined
  /\ confidence' = IF r.ok THEN r.confidence ELSE Undefined
  /\ thrown' = IF out.ok THEN "none" ELSE out.error
  /\ logged' = log
  /\ remarks' = IF out.ok THEN Get(out.lead, "remarks") ELSE Undefined
  /\ lead' = IF out.ok THEN out.lead ELSE Undefined

\* The state after a pipeline stopped at a rejected upload: `error` is what
\* it throws to its caller, `log` what it logged.
Rejected(name, error, log) ==
  /\ op' = name
  /\ args' = NoArgs
  /\ score' = Undefined
  /\ confidence' = Undefined
  /\ thrown' = error
  /\ logged' = log
  /\ remarks' = Undefined
  /\ lead' = Undefined

ProcessAudioToLead ==
  /\ phase = "idle"
  /\ \E file \in Requests, accepted \in Accepted(2) :
       \E issued \in {AudioCalls(file.originalName, file.now, accepted)} :
         /\ calls' = issued
         /\ IF accepted < 2
              THEN Rejected("processAudioToLead", "S3Error", "none")
              ELSE \E rawAudioUrl \in {Str(issued[1].url)}, audioUrl \in {Str(issued[2].url)},
                      transcription \in Transcriptions, leadData \in VoiceLeadData :
                     LET a == [leadData |-> leadData,
                               text |-> TranscriptionText(transcription),
                               metadata |-> TranscriptionMetadata(transcription)]
                     IN Processed("processAudioToLead", a,
                                  calculateConfidence(a.leadData, a.text, a.metadata),
                                  processAudioToLead(transcription, leadData,
                                                     audioUrl, rawAudioUrl),
                                  "none")
  /\ phase' = "called"
  /\ UNCHANGED <<prev, varied>>
  /\ UNCHANGED <<routeVars, fileVars>>

\* The catch block logs whatever was thrown and throws a new Error.
ProcessImageToLead ==
  /\ phase = "idle"
  /\ \E file \in Requests, accepted \in Accepted(1) :
       \E issued \in {ImageCalls(file.originalName, file.now[1], accepted)} :
         /\ calls' = issued
         /\ IF accepted < 1
              THEN Rejected("processImageToLead", "Error", "S3Error")
              ELSE \E imageUrl \in {Str(issued[1].url)}, extractedData \in ImageData,
                      boothId \in BoothIds :
                     LET a == [leadData |-> extractedData,
                               text |-> Get(extractedData, "ocrText"),
                               metadata |-> Undefined,
                               boothId |-> boothId]
                         scored == calculateOCRConfidence(extractedData)
                     IN Processed("processImageToLead", a, scored,
                                  processImageToLead(extractedData, imageUrl, boothId),
                                  IF scored.ok THEN "none" ELSE scored.error)
  /\ phase' = "called"
  /\ UNCHANGED <<prev, varied>>
  /\ UNCHANGED <<routeVars, fileVars>>

\* The background path.  It stops at its first statement: the error is
\* caught and logged, nothing is saved and nothing reaches the caller.
ProcessAudioToLeadAsync ==
  /\ phase = "idle"
  /\ ~processAudioToLeadAsync.ok
  /\ \E job \in Jobs : request' = job
  /\ responses' = << >>
  /\ created' = << >>
  /\ UNCHANGED fileVars
  /\ op' = "processAudioToLeadAsync"
  /\ args' = NoArgs
  /\ score' = Undefined
  /\ confidence' = Undefined
  /\ remarks' = Undefined
  /\ lead' = Undefined
  /\ thrown' = "none"
  /\ logged' = processAudioToLeadAsync.error
  /\ calls' = << >>
  /\ phase' = "called"
  /\ UNCHANGED <<prev, varied>>

CallCalculateConfidence ==
  /\ phase = "idle"
  /\ \E a \in MalformedCalls \cup
              {[leadData |-> l, text |-> t, metadata |-> m] :
                 l \in VoiceLeadData, t \in DirectTexts, m \in DirectMetadata} :
       Scored("calculateConfidence", a,
              calculateConfidence(a.leadData, a.text, a.metadata))
  /\ phase' = "called"
  /\ UNCHANGED <<prev, varied>>
  /\ UNCHANGED <<routeVars, fileVars>>

CallCalculateOCRConfidence ==
  /\ phase = "idle"
  /\ \E extractedData \in ImageData :
       Scored("calculateOCRConfidence",
              [leadData |-> extractedData,
               text |-> Get(extractedData, "ocrText"),
               metadata |-> Undefined],
              calculateOCRConfidence(extractedData))
  /\ phase' = "called"
  /\ UNCHANGED <<prev, varied>>
  /\ UNCHANGED <<routeVars, fileVars>>

Snapshot == [args |-> args, score |-> score, confidence |-> confidence]

Rescore(a) ==
  IF op = "calculateConfidence"
    THEN Scored(op, a, calculateConfidence(a.leadData, a.text, a.metadata))
    ELSE Scored(op, a, calculateOCRConfidence(a.leadData))

\* The scorer is called again with only the raw text changed.
RecallWithText ==
  /\ phase = "called"
  /\ op = "calculateConfidence"
  /\ thrown = "none"
  /\ \E t \in DirectTexts :
       /\ t # args.text
       /\ Rescore([args EXCEPT !.text = t])
  /\ prev' = Snapshot
  /\ varied' = "text"
  /\ phase' = "recalled"
  /\ UNCHANGED <<routeVars, fileVars>>

\* The scorer is called again with only one candidate field changed.
RecallWithField ==
  /\ phase = "called"
  /\ op \in {"calculateConfidence", "calculateOCRConfidence"}
  /\ thrown = "none"
  /\ \E i \in 1..Len(FieldNames) : \E v \in FieldVariants(FieldNames[i]) :
       /\ v # Get(args.leadData, FieldNames[i])
       /\ Rescore([args EXCEPT !.leadData.v[FieldNames[i]] = v])
       /\ varied' = FieldNames[i]
  /\ prev' = Snapshot
  /\ phase' = "recalled"
  /\ UNCHANGED <<routeVars, fileVars>>

\* The call is over; the next one starts from scratch.
Return ==
  /\ phase \in {"called", "recalled"}
  /\ phase' = "idle"
  /\ op' = "none"
  /\ args' = NoArgs
  /\ score' = Undefined
  /\ confidence' = Undefined
  /\ remarks' = Undefined
  /\ lead' = Undefined
  /\ thrown' = "none"
  /\ logged' = "none"
  /\ prev' = Undefined
  /\ varied' = "none"
  /\ calls' = << >>
  /\ request' = NoRequest
  /\ responses' = << >>
  /\ created' = << >>
  /\ UNCHANGED fileVars

\* A route answered (or failed to answer) a request.
Handled(name, log, issued) ==
  /\ phase' = "called"
  /\ op' = name
  /\ args' = NoArgs
  /\ score' = Undefined
  /\ confidence' = Undefined
  /\ remarks' = Undefined
  /\ lead' = Undefined
  /\ thrown' = "none"
  /\ logged' = log
  /\ calls' = issued
  /\ UNCHANGED <<prev, varied>>
  /\ UNCHANGED fileVars

PostCapture ==
  /\ phase = "idle"
  /\ \E body \in CaptureBodies, dbAccepts \in BOOLEAN :
       \E out \in {capture(body, dbAccepts)} :
         /\ request' = [route |-> "/capture", body |-> body, dbAccepts |-> dbAccepts]
         /\ responses' = out.responses
         /\ created' = out.created
         /\ Handled("POST /capture", out.logged, << >>)

PostProcessAudio ==
  /\ phase = "idle"
  /\ \E file \in AudioFiles, r \in Requests, accepted \in BOOLEAN :
       \E out \in {processAudio(file, r.now[1], accepted)} :
         /\ request' = [route |-> "/process-audio", file |-> file,
                        now |-> r.now[1], accepted |-> accepted]
         /\ responses' = out.responses
         /\ created' = << >>
         /\ Handled("POST /process-audio", out.logged, out.calls)

Next ==
  \/ ProcessAudioToLead
  \/ ProcessImageToLead
  \/ ProcessAudioToLeadAsync
  \/ CallCalculateConfidence
  \/ CallCalculateOCRConfidence
  \/ RecallWithText
  \/ RecallWithField
  \/ PostCapture
  \/ PostProcessAudio
  \/ Return

Spec == Init /\ [][Next]_vars

(***************************************************************************)
(* Overlapping invocations.  An invocation runs from one await to the      *)
(* next without interruption; between two awaits the others run.           *)
(***************************************************************************)
coreVars == <<phase, op, args, score, confidence, remarks, lead, thrown, logged,
              prev, varied, calls>>

\* The call is over: the finally block has run.
Finish(p, result) ==
  /\ files' = Cleanup(files, procs[p].tempFilePath)
  /\ procs' = [procs EXCEPT ![p].pc = "done", ![p].outcome = result]

\* Date.clock() moves on.
Tick ==
  /\ clock < MaxClock
  /\ clock' = clock + 1
  /\ UNCHANGED <<procs, files, puts, coreVars, routeVars>>

\* processAudioToLead up to its first await: the temporary file is written
\* and the upload to the temporary folder is sent.
StartVoice(p) ==
  /\ procs[p].pc = "idle"
  /\ \E originalName \in OriginalNames :
       \E tempFilePath \in {TempFilePath("upload", clock, originalName)} :
         /\ files' = WriteFile(files, tempFilePath, p)
         /\ procs' = [procs EXCEPT ![p] =
                        [kind |-> "voice", pc |-> "rawUpload",
                         originalName |-> originalName,
                         tempFilePath |-> tempFilePath,
                         url |-> uploadAudioToS3(originalName, TRUE, clock),
                         read |-> "nothing", outcome |-> "none"]]
  /\ UNCHANGED <<puts, clock, coreVars, routeVars>>

\* S3 answers the first upload; on success the second one is sent.
RawUploadAnswered(p) ==
  /\ procs[p].pc = "rawUpload"
  /\ \E ok \in BOOLEAN :
       IF ok
         THEN /\ puts' = puts \cup {[url |-> procs[p].url, by |-> p]}
              /\ procs' = [procs EXCEPT
                             ![p].pc = "permanentUpload",
                             ![p].url = uploadAudioToS3(procs[p].originalName, FALSE, clock)]
              /\ UNCHANGED files
         ELSE /\ Finish(p, "S3Error")
              /\ UNCHANGED puts
  /\ UNCHANGED <<clock, coreVars, routeVars>>

\* S3 answers the second upload; on success the transcription is requested
\* with a stream on the temporary file.
PermanentUploadAnswered(p) ==
  /\ procs[p].pc = "permanentUpload"
  /\ \E ok \in BOOLEAN :
       IF ok
         THEN /\ puts' = puts \cup {[url |-> procs[p].url, by |-> p]}
              /\ procs' = [procs EXCEPT ![p].pc = "transcription"]
              /\ UNCHANGED files
         ELSE /\ Finish(p, "S3Error")
              /\ UNCHANGED puts
  /\ UNCHANGED <<clock, coreVars, routeVars>>

\* The stream reads the temporary file and Whisper answers.  A file that
\* is gone makes the stream fail.
Transcribed(p) ==
  /\ procs[p].pc = "transcription"
  /\ IF procs[p].tempFilePath \notin DOMAIN files
       THEN /\ files' = Cleanup(files, procs[p].tempFilePath)
            /\ procs' = [procs EXCEPT ![p].pc = "done", ![p].read = "ENOENT",
                                       ![p].outcome = "ENOENT"]
       ELSE \E ok \in BOOLEAN :
              /\ files' = IF ok THEN files ELSE Cleanup(files, procs[p].tempFilePath)
              /\ procs' = [procs EXCEPT
                             ![p].read = NatToString(files[procs[p].tempFilePath]),
                             ![p].pc = IF ok THEN "extraction" ELSE "done",
                             ![p].outcome = IF ok THEN "none" ELSE "WhisperError"]
  /\ UNCHANGED <<puts, clock, coreVars, routeVars>>

\* GPT-4o answers; the Lead is scored and returned, or the error thrown.
Extracted(p) ==
  /\ procs[p].pc = "extraction"
  /\ \E result \in {"Lead", "ExtractionError", "TypeError"} : Finish(p, result)
  /\ UNCHANGED <<puts, clock, coreVars, routeVars>>

\* processImageToLead up to its first await: the upload is sent.
StartImage(p) ==
  /\ procs[p].pc = "idle"
  /\ \E originalName \in OriginalNames :
       procs' = [procs EXCEPT ![p] =
                   [kind |-> "image", pc |-> "imageUpload",
                    originalName |-> originalName, tempFilePath |-> "",
                    url |-> uploadToS3(originalName, clock),
                    read |-> "nothing", outcome |-> "none"]]
  /\ UNCHANGED <<files, puts, clock, coreVars, routeVars>>

\* S3 answers the upload of the image; what follows touches no file.
ImageUploadAnswered(p) ==
  /\ procs[p].pc = "imageUpload"
  /\ \E ok \in BOOLEAN :
       /\ puts' = IF ok THEN puts \cup {[url |-> procs[p].url, by |-> p]} ELSE puts
       /\ procs' = [procs EXCEPT ![p].pc = "done",
                                  ![p].outcome = IF ok THEN "Lead" ELSE "Error"]
  /\ UNCHANGED <<files, clock, coreVars, routeVars>>

\* processAudioToLeadAsync: it stops before it writes its temporary file,
\* and its finally block runs.
RunAsync(p) ==
  /\ procs[p].pc = "idle"
  /\ ~processAudioToLeadAsync.ok
  /\ \E originalName \in OriginalNames :
       \E tempFilePath \in {TempFilePath("async", clock, originalName)} :
         /\ files' = Cleanup(files, tempFilePath)
         /\ procs' = [procs EXCEPT ![p] =
                        [kind |-> "async", pc |-> "done",
                         originalName |-> originalName,
                         tempFilePath |-> tempFilePath, url |-> "",
                         read |-> "nothing",
                         outcome |-> processAudioToLeadAsync.error]]
  /\ UNCHANGED <<puts, clock, coreVars, routeVars>>

ConcurrentNext ==
  \/ Tick
  \/ \E p \in Invocations : StartVoice(p)
  \/ \E p \in Invocations : RawUploadAnswered(p)
  \/ \E p \in Invocations : PermanentUploadAnswered(p)
  \/ \E p \in Invocations : Transcribed(p)
  \/ \E p \in Invocations : Extracted(p)
  \/ \E p \in Invocations : StartImage(p)
  \/ \E p \in Invocations : ImageUploadAnswered(p)
  \/ \E p \in Invocations : RunAsync(p)

Concurrent == Init /\ [][ConcurrentNext]_vars

TypeOK ==
  /\ phase \in {"idle", "called", "recalled"}
  /\ thrown \in {"none", "TypeError", "Error", "S3Error"}
  /\ logged \in {"none", "TypeError", "ReferenceError", "S3Error", "PrismaError"}
  /\ Len(responses) <= 2
  /\ Len(created) <= 1
  /\ clock \in 0..MaxClock
  /\ \A p \in Invocations : procs[p].pc \in {"idle", "rawUpload", "permanentUpload",
                                               "transcription", "extraction",
                                               "imageUpload", "done"}
  /\ Len(calls) <= 4

(***************************************************************************)
(* Vocabulary of the properties.                                           *)
(***************************************************************************)
Pipelines == {"processAudioToLead", "processImageToLead", "processAudioToLeadAsync"}
Scorers == {"calculateConfidence", "calculateOCRConfidence"}

\* A call was made and came back with a value.
Returned == phase # "idle" /\ op \in (Pipelines \cup Scorers) /\ confidence # Undefined

\* A pipeline came back with a Lead.
LeadProduced == phase = "called" /\ op \in Pipelines /\ lead # Undefined

FieldOf(a, field) == Get(a.leadData, field)

Absent(x) == x.js \in {"null", "undefined"}

\* The raw text as characters; an absent text has none.
RawText(a) == IF a.text.js = "string" THEN a.text.v ELSE ""

\* needle occurs in hay.
Includes(hay, needle) ==
  \E i \in 1..(Len(hay) - Len(needle) + 1) :
    SubSeq(hay, i, i + Len(needle) - 1) = needle

Label(field) ==
  CASE field = "name" -> "Name (low confidence): "
    [] field = "email" -> "Email (low confidence): "
    [] field = "phone" -> "Phone (low confidence): "
    [] field = "company" -> "Company (low confidence): "
    [] field = "interest" -> "Interest (low confidence): "

FieldSet == {FieldNames[i] : i \in 1..Len(FieldNames)}

\* Candidate fields of the documented shape: absent or a string.
WellShapedFields(a) ==
  \A f \in FieldSet : Absent(FieldOf(a, f)) \/ FieldOf(a, f).js = "string"

WellShapedMetadata(m) ==
  \/ m.js = "undefined"
  \/ /\ m.js = "object"
     /\ Get(m, "duration").js \in {"undefined", "number"}
     /\ Get(m, "segments").js \in {"undefined", "array"}
     /\ Get(m, "words").js \in {"undefined", "array"}

WellShaped(a) ==
  /\ a.leadData.js = "object"
  /\ WellShapedFields(a)
  /\ WellShapedMetadata(a.metadata)
  /\ IF op \in {"calculateConfidence", "processAudioToLead"}
       THEN a.text.js = "string"
       ELSE Absent(a.text) \/ a.text.js = "string"

BelowSixTenths(c) == 10 * c.num < 6 * c.den

(***************************************************************************)
(* C1.  Every call of calculateConfidence or calculateOCRConfidence on     *)
(* inputs of the documented shape (any subset of the five fields present,  *)
(* any raw text, any metadata or none) returns a confidence c with         *)
(* 0 <= c <= 1.                                                            *)
(***************************************************************************)
C1_ConfidenceInUnitInterval ==
  (phase # "idle" /\ op \in (Scorers \cup {"processAudioToLead", "processImageToLead"})
     /\ WellShaped(args))
  => /\ thrown = "none"
     /\ confidence # Undefined
     /\ confidence.den > 0
     /\ 0 <= confidence.num
     /\ confidence.num <= confidence.den

\* A call whose score before clamping is negative came back with 0.
C1_Witness ==
  /\ Returned
  /\ WellShaped(args)
  /\ score.total < 0
  /\ confidence.num = 0

(***************************************************************************)
(* C2.  Zero data loss: whenever a pipeline computed a confidence below    *)
(* 0.6 and at least one candidate field is non-null, a Lead is produced    *)
(* whose remarks contain, for every non-null field, its label followed by  *)
(* its literal value, and the complete raw text.                           *)
(***************************************************************************)
C2_ZeroDataLoss ==
  (phase = "called" /\ op \in Pipelines /\ confidence # Undefined
     /\ BelowSixTenths(confidence)
     /\ \E f \in FieldSet : FieldOf(args, f) # Null /\ FieldOf(args, f) # Undefined)
  => /\ lead # Undefined
     /\ remarks.js = "string"
     /\ Includes(remarks.v, RawText(args))
     /\ \A f \in FieldSet :
          (FieldOf(args, f).js = "string")
            => Includes(remarks.v, Label(f) \o FieldOf(args, f).v)

(***************************************************************************)
(* C3.  Whenever the confidence a pipeline computed is at least 0.6, no    *)
(* fallback happens: the remarks of the produced Lead are null.            *)
(***************************************************************************)
C3_HighConfidenceNullRemarks ==
  (LeadProduced /\ ~BelowSixTenths(confidence))
  => /\ remarks = Null
     /\ Get(lead, "remarks") = Null

C3_Witness ==
  /\ LeadProduced
  /\ op = "processAudioToLead"
  /\ ~BelowSixTenths(confidence)
  /\ BelowSixTenths([num |-> confidence.num - 2, den |-> confidence.den])
  /\ remarks = Null

(***************************************************************************)
(* C4.  With a confidence below 0.6 and no signal at all (the five fields  *)
(* absent, the raw text empty) the remarks are null; in general the        *)
(* remarks are non-null exactly when the confidence is below 0.6 and some  *)
(* signal is non-empty.                                                    *)
(***************************************************************************)
SomeSignal(a) ==
  \/ RawText(a) # ""
  \/ \E f \in FieldSet : ~Absent(FieldOf(a, f)) /\ FieldOf(a, f) # Str("")

C4_NoSignalNullRemarks ==
  LeadProduced
  => /\ (BelowSixTenths(confidence) /\ ~SomeSignal(args)) => remarks = Null
     /\ (remarks # Null) <=> (BelowSixTenths(confidence) /\ SomeSignal(args))

(***************************************************************************)
(* C5.  The scorers and the remarks construction are total: once reached,  *)
(* on arguments of any shape, they raise no exception.                     *)
(***************************************************************************)
C5_NeverRaises ==
  (phase # "idle" /\ op \in (Scorers \cup {"processAudioToLead", "processImageToLead"})
     /\ args # NoArgs)
  => thrown = "none"

(***************************************************************************)
(* C6.  calculateConfidence with the five fields absent, an empty raw text *)
(* and no metadata returns exactly 0, the score before clamping being      *)
(* negative, and raises nothing.                                           *)
(***************************************************************************)
NothingToScore ==
  /\ phase # "idle"
  /\ op = "calculateConfidence"
  /\ \A f \in FieldSet : FieldOf(args, f) = Null
  /\ args.text = Str("")
  /\ args.metadata = Undefined

C6_EmptyInputScoresZero ==
  NothingToScore
  => /\ thrown = "none"
     /\ score.total < 0
     /\ confidence.num = 0

C6_Witness == NothingToScore /\ thrown = "none" /\ confidence = [num |-> 0, den |-> 65]

(***************************************************************************)
(* Two calls of a scorer that differ in a single argument: `prev` is the   *)
(* first call, the current state the second.                               *)
(***************************************************************************)
TwoCalls(what) ==
  /\ phase = "recalled"
  /\ varied = what
  /\ thrown = "none"

IsShort(a) == Len(RawText(a)) < 20

\* c1 < c2 and c1 <= c2 for two confidences.
Lower(c1, c2) == c1.num * c2.den < c2.num * c1.den
NotHigher(c1, c2) == c1.num * c2.den <= c2.num * c1.den

(***************************************************************************)
(* C7 as stated.  For fixed fields and metadata, calculateConfidence with  *)
(* a raw text shorter than 20 characters returns a strictly lower score    *)
(* than with a raw text of 20 or more characters.                          *)
(***************************************************************************)
C7_ShortTextStrictlyLower ==
  (TwoCalls("text") /\ op = "calculateConfidence")
  => /\ (IsShort(prev.args) /\ ~IsShort(args)) => Lower(prev.confidence, confidence)
     /\ (IsShort(args) /\ ~IsShort(prev.args)) => Lower(confidence, prev.confidence)

(***************************************************************************)
(* C7 as amended.  The score with the short text is never higher than the  *)
(* score with the long text, and it is strictly lower whenever the score   *)
(* with the long text is above 0.                                          *)
(***************************************************************************)
ShortVersusLong(short, long) ==
  /\ NotHigher(short, long)
  /\ long.num > 0 => Lower(short, long)

C7_ShortTextNeverHigher ==
  (TwoCalls("text") /\ op = "calculateConfidence")
  => /\ (IsShort(prev.args) /\ ~IsShort(args)) => ShortVersusLong(prev.confidence, confidence)
     /\ (IsShort(args) /\ ~IsShort(prev.args)) => ShortVersusLong(confidence, prev.confidence)

\* A short and a long text, both scoring above 0: the clamp is not involved.
C7_Witness ==
  /\ TwoCalls("text")
  /\ op = "calculateConfidence"
  /\ IsShort(prev.args)
  /\ ~IsShort(args)
  /\ prev.confidence.num > 0
  /\ Lower(prev.confidence, confidence)

(***************************************************************************)
(* C8.  Monotonicity in the fields: changing one absent candidate field to *)
(* a present, non-blank value, everything else fixed, never decreases the  *)
(* score of either scorer.                                                 *)
(***************************************************************************)
NonBlank(x) == x.js = "string" /\ \E k \in 1..Len(x.v) : SubSeq(x.v, k, k) # " "

C8_AddingFieldNeverDecreases ==
  \A f \in FieldSet :
    (TwoCalls(f) /\ op \in Scorers)
    => /\ (Absent(FieldOf(prev.args, f)) /\ NonBlank(FieldOf(args, f)))
            => NotHigher(prev.confidence, confidence)
       /\ (Absent(FieldOf(args, f)) /\ NonBlank(FieldOf(prev.args, f)))
            => NotHigher(confidence, prev.confidence)

\* The image scorer, a field added, and a score that rose.
C8_Witness ==
  /\ TwoCalls("company")
  /\ op = "calculateOCRConfidence"
  /\ Absent(FieldOf(prev.args, "company"))
  /\ NonBlank(FieldOf(args, "company"))
  /\ Lower(prev.confidence, confidence)

(***************************************************************************)
(* C9 as stated.  Of two calls that differ only in the email, one valid    *)
(* (local@domain.tld), the other invalid or missing, the valid one has a   *)
(* score before normalisation that is exactly 0.5 higher.                  *)
(***************************************************************************)
ValidEmails == {Str("jane@x.com"), Str("john@tech.io")}
InvalidEmails == {Str("jane@x"), Str("john@tech")}

EmailOf(a) == FieldOf(a, "email")

C9_ValidEmailAddsHalf ==
  (TwoCalls("email") /\ op \in Scorers)
  => /\ (EmailOf(args) \in ValidEmails /\ EmailOf(prev.args) \notin ValidEmails)
          => score.total - prev.score.total = 5
     /\ (EmailOf(prev.args) \in ValidEmails /\ EmailOf(args) \notin ValidEmails)
          => prev.score.total - score.total = 5

(***************************************************************************)
(* C9 as amended.  The valid email scores exactly 0.5 more than a present  *)
(* but invalid email, and exactly 1.5 more than a missing or blank email:  *)
(* the valid email also counts as a present field.                         *)
(***************************************************************************)
EmailGain(other) ==
  IF other \in InvalidEmails THEN 5 ELSE 15

C9_ValidEmailGain ==
  (TwoCalls("email") /\ op \in Scorers)
  => /\ (EmailOf(args) \in ValidEmails /\ EmailOf(prev.args) \notin ValidEmails)
          => score.total - prev.score.total = EmailGain(EmailOf(prev.args))
     /\ (EmailOf(prev.args) \in ValidEmails /\ EmailOf(args) \notin ValidEmails)
          => prev.score.total - score.total = EmailGain(EmailOf(args))

\* A valid email against a present but invalid one: exactly 0.5 apart.
C9_Witness ==
  /\ TwoCalls("email")
  /\ op = "calculateConfidence"
  /\ EmailOf(args) \in ValidEmails
  /\ EmailOf(prev.args) \in InvalidEmails
  /\ score.total - prev.score.total = 5

(***************************************************************************)
(* C10.  In both modalities the near-empty penalty of 1 is applied exactly *)
(* when the raw text (transcript, ocrText) has fewer than 20 characters,   *)
(* an empty or absent raw text included.                                   *)
(***************************************************************************)
C10_PenaltyBelowTwentyCharacters ==
  (Returned /\ WellShaped(args))
  => (score.parts.text = -10 <=> Len(RawText(args)) < 20)

(***************************************************************************)
(* The metadata a call was scored with.                                    *)
(***************************************************************************)
HasMetadata(a) == a.metadata.js = "object"
DurationOf(a) == Get(a.metadata, "duration")
SegmentsOf(a) == Get(a.metadata, "segments")

\* A voice scoring, direct or inside the pipeline, that came back.
VoiceScored ==
  /\ phase # "idle"
  /\ op \in {"calculateConfidence", "processAudioToLead"}
  /\ thrown = "none"
  /\ score # Undefined
  /\ WellShaped(args)

(***************************************************************************)
(* C11.  Whenever metadata is present, the short-duration penalty of 0.5   *)
(* is applied exactly when the duration is below 2 seconds: for every      *)
(* duration >= 0, a duration of 0 included, and whether or not segments    *)
(* are supplied.                                                           *)
(***************************************************************************)
C11_DurationPenaltyBelowTwoSeconds ==
  (VoiceScored /\ HasMetadata(args) /\ DurationOf(args).js = "number")
  => (score.parts.duration = -5 <=> DurationOf(args).v < 20)

(***************************************************************************)
(* C12.  Whenever metadata is present with a non-empty segment list whose  *)
(* mean segment text length exceeds 10, the segment bonus of 0.3 is added, *)
(* whatever the duration is (0 and absent included).                       *)
(***************************************************************************)
LongSegments(a) ==
  /\ HasMetadata(a)
  /\ SegmentsOf(a).js = "array"
  /\ Len(SegmentsOf(a).v) > 0
  /\ SumSegmentLengths(SegmentsOf(a).v) > 10 * Len(SegmentsOf(a).v)

C12_SegmentBonusWhateverDuration ==
  (VoiceScored /\ LongSegments(args)) => score.parts.segments = 3

(***************************************************************************)
(* The three documented end-to-end scenarios.                              *)
(***************************************************************************)
\* Scenario C: a card with name and company, nothing else, 40 characters.
ScenarioC ==
  /\ phase = "called"
  /\ op = "processImageToLead"
  /\ args # NoArgs
  /\ FieldOf(args, "name") = Str("John")
  /\ FieldOf(args, "company") = Str("Tech Inc")
  /\ \A f \in {"email", "phone", "interest"} : FieldOf(args, f) = Null
  /\ Len(RawText(args)) = 40

\* Scenario A: five fields, a valid email, 120 characters, 8 seconds,
\* 4 segments of mean length 15, 20 words.
ScenarioA ==
  /\ phase = "called"
  /\ op = "processAudioToLead"
  /\ args # NoArgs
  /\ \A f \in FieldSet : NonBlank(FieldOf(args, f))
  /\ EmailOf(args) \in ValidEmails
  /\ Len(RawText(args)) = 120
  /\ DurationOf(args) = Num(80)
  /\ Len(SegmentsOf(args).v) = 4
  /\ SumSegmentLengths(SegmentsOf(args).v) = 15 * 4
  /\ Len(Get(args.metadata, "words").v) = 20

\* Scenario B: nothing extracted from "hi my name is uh", 1.5 seconds.
ScenarioB ==
  /\ phase = "called"
  /\ op = "processAudioToLead"
  /\ args # NoArgs
  /\ \A f \in FieldSet : FieldOf(args, f) = Null
  /\ RawText(args) = "hi my name is uh"
  /\ DurationOf(args) = Num(15)

\* c, rounded to two decimal places, is hundredths / 100.
RoundsTo(c, hundredths) ==
  /\ 1000 * c.num >= (10 * hundredths - 5) * c.den
  /\ 1000 * c.num < (10 * hundredths + 5) * c.den

(***************************************************************************)
(* C13 as stated.  Scenario C: the image confidence is 0.8, at or above    *)
(* the threshold, so no fallback is triggered and the remarks are null.    *)
(***************************************************************************)
C13_ScenarioCScoresEightTenths ==
  ScenarioC
  => /\ 10 * confidence.num = 8 * confidence.den
     /\ ~BelowSixTenths(confidence)
     /\ remarks = Null

(***************************************************************************)
(* C13 as amended.  Scenario C: the image confidence is 2/5.5, below the   *)
(* threshold, so the fallback is triggered and the remarks hold the OCR    *)
(* text, the name and the company.                                         *)
(***************************************************************************)
C13_ScenarioCFallsBack ==
  ScenarioC
  => /\ confidence = [num |-> 20, den |-> 55]
     /\ BelowSixTenths(confidence)
     /\ remarks = Str("OCR Text: " \o RawText(args)
                       \o " | " \o Label("name") \o "John"
                       \o " | " \o Label("company") \o "Tech Inc")
     /\ Get(lead, "remarks") = remarks

C13_Witness == ScenarioC /\ LeadProduced /\ remarks.js = "string" /\ score.total = 20

(***************************************************************************)
(* C14 as stated.  Scenario A: the confidence is 0.85 to two decimal       *)
(* places and the fallback is not triggered.                               *)
(***************************************************************************)
C14_ScenarioAScores85 ==
  ScenarioA => (RoundsTo(confidence, 85) /\ remarks = Null)

(***************************************************************************)
(* C14 as amended.  Scenario A: the confidence is 6/6.5, 0.92 to two       *)
(* decimal places, and the fallback is not triggered.                      *)
(***************************************************************************)
C14_ScenarioAScores92 ==
  ScenarioA
  => /\ confidence = [num |-> 60, den |-> 65]
     /\ RoundsTo(confidence, 92)
     /\ remarks = Null

C14_Witness ==
  /\ ScenarioA
  /\ LeadProduced
  /\ score.parts = [fields |-> 50, email |-> 5, text |-> 0,
                     duration |-> 0, segments |-> 3, pace |-> 2]

Triggered == LeadProduced /\ BelowSixTenths(confidence)

NonEmpty(x) == x.js = "string" /\ x.v # ""

TextPrefix == IF op = "processImageToLead" THEN "OCR Text: " ELSE "Transcript: "

TextLine(a) == IF RawText(a) # "" THEN <<TextPrefix \o RawText(a)>> ELSE << >>

FieldLine(a, f) ==
  IF NonEmpty(FieldOf(a, f)) THEN <<Label(f) \o FieldOf(a, f).v>> ELSE << >>

FieldLines(a) ==
  FieldLine(a, "name") \o FieldLine(a, "email") \o FieldLine(a, "phone")
    \o FieldLine(a, "company") \o FieldLine(a, "interest")

\* The language and duration lines of a voice Lead: the language always
\* (detected, or "unknown"), the duration when it is not 0.
MetadataLines(a) ==
  IF op = "processAudioToLead"
    THEN <<"Language: " \o Get(a.metadata, "language").v>>
           \o (IF DurationOf(a).v # 0
                 THEN <<"Duration: " \o NatToString(DurationOf(a).v \div 10) \o "."
                          \o NatToString(DurationOf(a).v % 10) \o "0s">>
                 ELSE << >>)
    ELSE << >>

RECURSIVE Separated(_)
Separated(lines) ==
  IF lines = << >> THEN ""
  ELSE IF Len(lines) = 1 THEN Head(lines)
  ELSE Head(lines) \o " | " \o Separated(Tail(lines))

C17_FieldsPassThrough ==
  LeadProduced
  => \A f \in FieldSet :
       IF Absent(FieldOf(args, f))
         THEN Absent(Get(lead, f))
         ELSE Get(lead, f) = FieldOf(args, f)

\* A low-confidence image Lead that still carries the name it also records
\* in its remarks.
C17_Witness ==
  /\ Triggered
  /\ op = "processImageToLead"
  /\ Get(lead, "name") = Str("John")
  /\ Includes(remarks.v, Label("name") \o "John")

(***************************************************************************)
(* C18.  In every Lead produced by processAudioToLead or                   *)
(* processImageToLead an absent contact field is null: no name, email,     *)
(* phone, company or interest is an empty or whitespace-only string.       *)
(***************************************************************************)
C18_AbsentFieldsAreNull ==
  LeadProduced
  => \A f \in FieldSet : Get(lead, f) = Null \/ NonBlank(Get(lead, f))

(***************************************************************************)
(* The uploads a call made.                                                *)
(***************************************************************************)
\* The URLs S3 returned for the accepted uploads, temporary or permanent.
Uploaded(temporary) ==
  {calls[j].url : j \in {i \in 1..Len(calls) :
                           /\ calls[i].to = "s3"
                           /\ calls[i].ok
                           /\ calls[i].temporary = temporary}}

IsUrl(x) == x.js = "string" /\ SubSeq(x.v, 1, 8) = "https://"

(***************************************************************************)
(* C19.  The artifact URLs are threaded through unchanged.  A voice Lead's *)
(* source is the URL the permanent upload returned and its rawAudioUrl the *)
(* URL the temporary upload returned, two different URLs; an image Lead's  *)
(* source is the URL of the image upload and it has no rawAudioUrl.  Every *)
(* voice Lead, on the synchronous and on the background path, carries both *)
(* URLs.                                                                   *)
(***************************************************************************)
C19_UrlsThreadedThrough ==
  /\ (LeadProduced /\ op = "processAudioToLead")
       => /\ IsUrl(Get(lead, "source"))
          /\ IsUrl(Get(lead, "rawAudioUrl"))
          /\ Uploaded(FALSE) = {Get(lead, "source").v}
          /\ Uploaded(TRUE) = {Get(lead, "rawAudioUrl").v}
          /\ Get(lead, "source") # Get(lead, "rawAudioUrl")
  /\ (LeadProduced /\ op = "processImageToLead")
       => /\ IsUrl(Get(lead, "source"))
          /\ Uploaded(FALSE) = {Get(lead, "source").v}
          /\ Get(lead, "rawAudioUrl") = Undefined
  /\ (phase = "called" /\ op = "processAudioToLeadAsync")
       => /\ lead # Undefined
          /\ {"source", "rawAudioUrl"} \subseteq AsyncLeadKeys

(***************************************************************************)
(* C20.  No Lead without its provenance URL.  In processAudioToLead and    *)
(* processImageToLead every upload has completed successfully before any   *)
(* transcription or extraction call is issued; when an upload fails, the   *)
(* call fails, returns no Lead and makes no extraction-service call.       *)
(***************************************************************************)
ExtractionServices == {"whisper", "gpt-4o"}

UploadsOf(name) == IF name = "processAudioToLead" THEN {TRUE, FALSE} ELSE {FALSE}

C20_UploadsBeforeExtraction ==
  (phase = "called" /\ op \in {"processAudioToLead", "processImageToLead"})
  => /\ \A i \in 1..Len(calls) :
          calls[i].to \in ExtractionServices
            => /\ \A j \in 1..Len(calls) : calls[j].to = "s3" => (j < i /\ calls[j].ok)
               /\ \A t \in UploadsOf(op) : Uploaded(t) # {}
     /\ (\E j \in 1..Len(calls) : calls[j].to = "s3" /\ ~calls[j].ok)
          => /\ thrown # "none"
             /\ lead = Undefined
             /\ \A i \in 1..Len(calls) : calls[i].to \notin ExtractionServices
     /\ lead # Undefined
          => /\ IsUrl(Get(lead, "source"))
             /\ Get(lead, "source").v \in Uploaded(FALSE)

\* The temporary upload went through, the permanent one was rejected: the
\* call failed before it asked for a transcription.
C20_Witness ==
  /\ phase = "called"
  /\ op = "processAudioToLead"
  /\ Len(calls) = 2
  /\ calls[1].ok
  /\ ~calls[2].ok
  /\ thrown = "S3Error"
  /\ lead = Undefined

(***************************************************************************)
(* C25.  In the report of either test runner, for every processed file,    *)
(* fallbackInfo.triggered is true exactly when confidenceScore.status is   *)
(* LOW_CONFIDENCE_FALLBACK and false exactly when it is HIGH_CONFIDENCE.   *)
(***************************************************************************)
C25_TriggeredIffLowConfidence ==
  (LeadProduced /\ op \in {"processAudioToLead", "processImageToLead"})
  => LET report == detailedResults(lead)
     IN /\ report.confidenceScore.status \in {"HIGH_CONFIDENCE", "LOW_CONFIDENCE_FALLBACK"}
        /\ report.fallbackInfo.triggered
             <=> report.confidenceScore.status = "LOW_CONFIDENCE_FALLBACK"

(***************************************************************************)
(* C22.  A Lead's boothId is the value the caller supplied, never an       *)
(* invented one: processImageToLead returns the caller's boothId (as the   *)
(* number it denotes, null when none was given), and a lead created by     *)
(* POST /capture has the boothId of the request.                           *)
(***************************************************************************)
\* `kept` is the booth `given` names.
Carries(given, kept) ==
  IF Absent(given)
    THEN kept = Null
    ELSE kept # NaN /\ kept \in {given, Number(given)}

Captured == phase = "called" /\ op = "POST /capture"

C22_BoothIdIsTheCallers ==
  /\ (LeadProduced /\ op = "processImageToLead")
       => Carries(args.boothId, Get(lead, "boothId"))
  /\ Captured
       => \A i \in 1..Len(created) :
            Get(created[i], "boothId") = Get(request.body, "boothId")

(***************************************************************************)
(* C24.  A lead created through POST /capture has confidence and type      *)
(* populated with exactly the values submitted, for every submitted        *)
(* confidence in [0,1], 0 included, and every type in voice, image,        *)
(* manual.                                                                 *)
(***************************************************************************)
LeadTypes == {Str("voice"), Str("image"), Str("manual")}

C24_ConfidenceAndTypeAsSubmitted ==
  (/\ Captured
   /\ Len(created) = 1
   /\ Get(request.body, "confidence").js = "number"
   /\ Get(request.body, "type") \in LeadTypes)
  => /\ Get(created[1], "confidence") = Get(request.body, "confidence")
     /\ Get(created[1], "type") = Get(request.body, "type")

(***************************************************************************)
(* C26.  POST /capture creates a lead if and only if boothId is present   *)
(* and at least one of name, email, phone, company, interest is non-empty; *)
(* in every other case it answers 400 and creates nothing, also when the   *)
(* request carries a non-empty transcript or remarks.                      *)
(***************************************************************************)
SomeField(body) ==
  \E f \in FieldSet : ~Absent(Get(body, f)) /\ Get(body, f) # Str("")

C26_CreatesIffBoothAndField ==
  Captured
  => LET valid == /\ Get(request.body, "boothId") \notin {Undefined, Null, Str("")}
                  /\ SomeField(request.body)
     IN /\ Len(created) = 1 <=> valid
        /\ ~valid => /\ Len(responses) = 1
                      /\ responses[1].status = 400
                      /\ created = << >>

\* Amended: boothId has to be truthy (0 and "" are refused like a missing
\* one), and the record has to be accepted by the database: when
\* prisma.lead.create fails the answer is 500 and nothing is created.
C26_CreatesIffValidAndStored ==
  Captured
  => LET valid == Truthy(Get(request.body, "boothId")) /\ SomeField(request.body)
     IN /\ Len(responses) = 1
        /\ Len(created) <= 1
        /\ Len(created) = 1 <=> (valid /\ request.dbAccepts)
        /\ ~valid => responses[1].status = 400
        /\ (valid /\ ~request.dbAccepts) => responses[1].status = 500
        /\ (valid /\ request.dbAccepts)
             => /\ responses[1].status = 200
                /\ responses[1].body.data = created[1]

\* A fallback result whose five fields are all null is refused, and its
\* remarks are not stored.
C26_Witness ==
  /\ Captured
  /\ Truthy(Get(request.body, "boothId"))
  /\ ~SomeField(request.body)
  /\ Truthy(Get(request.body, "remarks"))
  /\ Truthy(Get(request.body, "transcript"))
  /\ responses = <<Response(400, [success |-> FALSE,
                                  error |-> "Please provide some lead information (at least one field)."])>>
  /\ created = << >>

(***************************************************************************)
(* C23.  For a POST /process-audio request with a non-empty audio file     *)
(* that S3 accepts, the handler uploads the audio once and answers 202     *)
(* with the permanent URL of that upload, before any transcription or      *)
(* extraction call is made.                                                *)
(***************************************************************************)
AudioPosted == phase = "called" /\ op = "POST /process-audio"

NonEmptyFile(file) ==
  /\ Truthy(file)
  /\ Truthy(Get(file, "buffer"))
  /\ Get(Get(file, "buffer"), "length") # Num(0)

C23_UploadOnceThenAcknowledge ==
  (AudioPosted /\ NonEmptyFile(request.file) /\ request.accepted)
  => /\ Len(calls) = 1
     /\ calls[1].to = "s3"
     /\ ~calls[1].temporary
     /\ \A i \in 1..Len(calls) : calls[i].to \notin ExtractionServices
     /\ Len(responses) >= 1
     /\ responses[1].status = 202
     /\ responses[1].body.source = calls[1].url

(***************************************************************************)
(* C28.  Every request to POST /process-audio gets exactly one response:   *)
(* 400 when the file is missing or empty, with no upload made; 202 after   *)
(* a successful upload; 500 when the upload fails.                         *)
(***************************************************************************)
C28_ExactlyOneResponse ==
  AudioPosted
  => /\ Len(responses) = 1
     /\ IF ~NonEmptyFile(request.file)
          THEN responses[1].status = 400 /\ calls = << >>
          ELSE IF request.accepted
            THEN responses[1].status = 202
            ELSE responses[1].status = 500

(***************************************************************************)
(* C27.  The background processing of an acknowledged upload terminates    *)
(* without throwing to its caller and saves at most one Lead: exactly one, *)
(* whose source is the acknowledged URL, when download, transcription,     *)
(* extraction and saving all succeed, and none, with the error logged,     *)
(* when any of them fails.                                                 *)
(***************************************************************************)
BackgroundDone == phase = "called" /\ op = "processAudioToLeadAsync"

C27_OneLeadPerAcknowledgedUpload ==
  BackgroundDone
  => /\ thrown = "none"
     /\ Len(created) <= 1
     /\ IF request.fails = "none"
          THEN /\ Len(created) = 1
               /\ Get(created[1], "source") = Str(request.audioUrl)
          ELSE created = << >> /\ logged # "none"

(***************************************************************************)
(* C21.  Overlapping voice-processing invocations do not disturb each      *)
(* other: from the moment an invocation has written its temporary file     *)
(* until its transcription has read it, the file exists and holds that     *)
(* invocation's own audio bytes, also for two invocations given the same   *)
(* original filename in the same millisecond.                              *)
(***************************************************************************)
NeedsFile(p) ==
  procs[p].kind = "voice" /\ procs[p].pc \in {"rawUpload", "permanentUpload", "transcription"}

C21_TempFileIsItsOwn ==
  \A p \in Invocations :
    /\ NeedsFile(p) => /\ procs[p].tempFilePath \in DOMAIN files
                        /\ files[procs[p].tempFilePath] = p
    /\ procs[p].read \in {"nothing", NatToString(p)}

(***************************************************************************)
(* C29.  No two uploads write the same S3 object: the URLs (and so the     *)
(* keys) of the objects two invocations stored differ, also for the same   *)
(* filename uploaded in the same millisecond.                              *)
(***************************************************************************)
C29_NoSharedObjectKey ==
  \A a \in puts, b \in puts : a.url = b.url => a.by = b.by

(***************************************************************************)
(* C30.  Whenever a voice-processing call has finished, by returning a     *)
(* Lead or by failing in an upload, the transcription, the extraction or   *)
(* the scoring, the temporary file it wrote no longer exists; this holds   *)
(* for processAudioToLead and for processAudioToLeadAsync.                 *)
(***************************************************************************)
Finished(p) == procs[p].kind \in {"voice", "async"} /\ procs[p].pc = "done"

C30_TempFileRemoved ==
  \A p \in Invocations :
    Finished(p) => \A path \in DOMAIN files : files[path] # p

\* One call returned its Lead and the other failed in the transcription
\* after it had written its own file; neither file is left.
C30_Witness ==
  \E p \in Invocations, q \in Invocations :
    /\ procs[p].kind = "voice" /\ procs[p].pc = "done" /\ procs[p].outcome = "Lead"
    /\ procs[q].kind = "voice" /\ procs[q].pc = "done" /\ procs[q].outcome = "WhisperError"
    /\ procs[q].read = NatToString(q)
    /\ procs[p].tempFilePath # procs[q].tempFilePath
    /\ DOMAIN files = {}

====
